---- MODULE Spec2Model ----
(***************************************************************************)
(* EyeAmMe: encrypted object storage with per-user namespacing, JSON       *)
(* documents, registration, upload, explicit delete and the retention      *)
(* sweep.  The bucket is a function from object keys to ciphertexts.  A    *)
(* key "users/{u}/files/{f}/{name}" is the sequence of its "/"-separated   *)
(* segments; a Python value is a tagged tuple; a call's outcome is a       *)
(* record [bucket, exc, val]: the bucket after the call, the exception it  *)
(* raised ("none" when it returned) and the value it returned.             *)
(***************************************************************************)
EXTENDS Integers, Sequences, FiniteSets, TLC

\* ------------------------------------------------------------ bounds
MaxUsers == 2
MaxFiles == 2
MaxFaults == 1
Epoch == 9
Horizon == 2
\* keys one list_objects_v2 response holds (1000 at the real store)
MaxKeys == 4
\* the retention period in days, read from the environment
DATA_RETENTION_DAYS == 1
MaxElsewhere == 2

UserIds == 1..MaxUsers
FileIds == 1..MaxFiles
Emails == {"a@x.com", "b@x.com"}
Passwords == {"pw1", "pw2"}
RegPasswords == {"pw1"}
Filenames == {"data.xlsx", "notes.txt"}
Faults == {"ok", "ClientError", "BotoCoreError"}

\* ------------------------------------------------------ Python values
None == <<"none">>
Str(s) == <<"str", s>>
Num(n) == <<"int", n>>
Dict(f) == <<"dict", f>>
\* a value json.dumps rejects with TypeError (a pandas Timestamp, a set)
PyObj(x) == <<"pyobj", x>>
EmptyMap == [x \in {} |-> None]

Ret(b, v) == [bucket |-> b, exc |-> "none", val |-> v]
Raise(b, e) == [bucket |-> b, exc |-> e, val |-> None]

\* ------------------------------------------------------------- JSON
RECURSIVE Serializable(_)
Serializable(v) ==
    CASE v[1] = "dict" -> \A k \in DOMAIN v[2] : Serializable(v[2][k])
      [] v[1] = "pyobj" -> FALSE
      [] OTHER -> TRUE

RECURSIVE SetToSeq(_)
SetToSeq(S) ==
    IF S = {} THEN <<>>
    ELSE LET x == CHOOSE y \in S : TRUE IN <<x>> \o SetToSeq(S \ {x})

\* json.dumps: the text of a value, an object's members in sequence
RECURSIVE JsonText(_)
JsonText(v) ==
    CASE v[1] = "none" -> <<"null">>
      [] v[1] = "str" -> <<"string", v[2]>>
      [] v[1] = "int" -> <<"number", v[2]>>
      [] v[1] = "dict" ->
            LET names == SetToSeq(DOMAIN v[2])
            IN <<"object", [i \in DOMAIN names |-> <<names[i], JsonText(v[2][names[i]])>>]>>

json_dumps(v) ==
    IF Serializable(v) THEN [exc |-> "none", val |-> JsonText(v)]
    ELSE [exc |-> "TypeError", val |-> None]

\* the last member of the text with this name (json.loads keeps the last)
LastMember(members, name) ==
    LET i == CHOOSE j \in DOMAIN members :
                 /\ members[j][1] = name
                 /\ \A l \in DOMAIN members : members[l][1] = name => l <= j
    IN members[i][2]

RECURSIVE JsonValue(_)
JsonValue(t) ==
    CASE t[1] = "null" -> None
      [] t[1] = "string" -> Str(t[2])
      [] t[1] = "number" -> Num(t[2])
      [] t[1] = "object" ->
            Dict([name \in {t[2][i][1] : i \in DOMAIN t[2]} |->
                      JsonValue(LastMember(t[2], name))])

\* bytes: the UTF-8 encoding of a text, or raw spreadsheet bytes
Utf8(text) == <<"utf8", text>>
RawBytes(c) == <<"raw", c>>

\* content.decode("utf-8") then json.loads
json_loads(bytes) ==
    IF bytes[1] = "utf8" THEN [exc |-> "none", val |-> JsonValue(bytes[2])]
    ELSE [exc |-> "ValueError", val |-> None]

\* ------------------------------------------------------- encryption
ENCRYPTION_KEY == "key0"

encrypt_data(data) == [key |-> ENCRYPTION_KEY, data |-> data]

decrypt_data(token) ==
    IF token.key = ENCRYPTION_KEY THEN [exc |-> "none", val |-> token.data]
    ELSE [exc |-> "InvalidToken", val |-> None]

\* ------------------------------------------------------ object keys
users_index_key == <<"users", "index.json">>
user_profile_key(u) == <<"users", u, "profile.json">>
file_prefix(u) == <<"users", u, "files">>
\* every payload under the first user's prefix
file_payload_key_first(u, f, name) == <<"users", 1, "files", f, name>>
file_payload_key(u, f, name) == <<"users", u, "files", f, name>>
file_metadata_key(u, f) == <<"users", u, "files", f, "metadata.json">>
file_report_key(u, f) == <<"users", u, "files", f, "report.json">>

\* key.startswith(prefix), the prefix ending in "/"
HasPrefix(key, prefix) ==
    /\ Len(key) > Len(prefix)
    /\ SubSeq(key, 1, Len(prefix)) = prefix

\* key.endswith("/metadata.json")
IsMetadataKey(key) == Len(key) > 1 /\ key[Len(key)] = "metadata.json"

\* the byte order of the last segments
NameRank(name) ==
    CASE name = "data.xlsx" -> 0
      [] name = "metadata.json" -> 1
      [] name = "report.json" -> 2
      [] OTHER -> 3

\* the byte order of the keys: a user's "files/" before "profile.json",
\* every "users/{id}/" before "users/index.json"
SortKey(k) ==
    IF Len(k) = 2 THEN <<MaxUsers + 1, 0, 0, 0>>
    ELSE IF Len(k) = 3 THEN <<k[2], 1, 0, 0>>
    ELSE <<k[2], 0, k[4], NameRank(k[5])>>

RECURSIVE StrLess(_, _)
StrLess(a, b) ==
    IF a = <<>> THEN b # <<>>
    ELSE IF b = <<>> THEN FALSE
    ELSE IF Head(a) = Head(b) THEN StrLess(Tail(a), Tail(b))
    ELSE Head(a) < Head(b)

RECURSIVE SortedKeys(_)
SortedKeys(S) ==
    IF S = {} THEN <<>>
    ELSE LET m == CHOOSE x \in S :
                      \A y \in S : x = y \/ StrLess(SortKey(x), SortKey(y))
         IN <<m>> \o SortedKeys(S \ {m})

Take(seq, n) == SubSeq(seq, 1, IF Len(seq) < n THEN Len(seq) ELSE n)

Range(seq) == {seq[i] : i \in DOMAIN seq}

Without(b, key) == [k \in DOMAIN b \ {key} |-> b[k]]

\* --------------------------------------------- the S3 client's calls
\* a fault is the store's answer to one call: "ok", a ClientError (the
\* store rejects it) or a BotoCoreError (no answer: it is no ClientError)
put_object_keep(b, key, body, fault) ==
    IF fault = "ok"
    THEN [bucket |-> IF key \in DOMAIN b THEN b ELSE (key :> body) @@ b, exc |-> "none"]
    ELSE [bucket |-> b, exc |-> fault]

put_object(b, key, body, fault) ==
    IF fault = "ok" THEN [bucket |-> (key :> body) @@ b, exc |-> "none"]
    ELSE [bucket |-> b, exc |-> fault]

get_object(b, key, fault) ==
    IF fault # "ok" THEN [exc |-> fault, val |-> None]
    ELSE IF key \in DOMAIN b THEN [exc |-> "none", val |-> b[key]]
    ELSE [exc |-> "ClientError", val |-> None]

delete_object(b, key, fault) ==
    IF fault = "ok" THEN [bucket |-> Without(b, key), exc |-> "none"]
    ELSE [bucket |-> b, exc |-> fault]

\* one response: the first MaxKeys keys under the prefix, in key order
list_objects_v2(b, prefix, fault) ==
    IF fault # "ok" THEN [exc |-> fault, val |-> <<>>]
    ELSE [exc |-> "none",
          val |-> Take(SortedKeys({k \in DOMAIN b : HasPrefix(k, prefix)}), MaxKeys)]

\* ------------------------------------------------------- storage.py
upload_file_to_r2(b, key, content, fault) ==
    LET r == put_object(b, key, encrypt_data(content), fault)
    IN CASE r.exc = "none" -> Ret(r.bucket, TRUE)
         [] r.exc = "ClientError" -> Ret(b, FALSE)
         [] OTHER -> Raise(b, r.exc)

download_file_from_r2(b, key, fault) ==
    LET r == get_object(b, key, fault)
    IN CASE r.exc = "ClientError" -> Ret(b, None)
         [] r.exc = "none" ->
               LET d == decrypt_data(r.val)
               IN IF d.exc = "none" THEN Ret(b, d.val) ELSE Raise(b, d.exc)
         [] OTHER -> Raise(b, r.exc)

delete_file_from_r2_strict(b, key, fault) ==
    IF fault = "ok" /\ key \notin DOMAIN b THEN Ret(b, FALSE)
    ELSE LET r == delete_object(b, key, fault)
         IN CASE r.exc = "none" -> Ret(r.bucket, TRUE)
              [] r.exc = "ClientError" -> Ret(b, FALSE)
              [] OTHER -> Raise(b, r.exc)

delete_file_from_r2(b, key, fault) ==
    LET r == delete_object(b, key, fault)
    IN CASE r.exc = "none" -> Ret(r.bucket, TRUE)
         [] r.exc = "ClientError" -> Ret(b, FALSE)
         [] OTHER -> Raise(b, r.exc)

list_objects_with_prefix(b, prefix, fault) ==
    LET r == list_objects_v2(b, prefix, fault)
    IN CASE r.exc = "none" -> Ret(b, r.val)
         [] r.exc = "ClientError" -> Ret(b, <<>>)
         [] OTHER -> Raise(b, r.exc)

save_json_to_r2(b, key, data, fault) ==
    LET j == json_dumps(data)
    IN IF j.exc # "none" THEN Ret(b, FALSE)
       ELSE LET r == upload_file_to_r2(b, key, Utf8(j.val), fault)
            IN IF r.exc = "none" THEN r ELSE Ret(b, FALSE)

load_json_from_r2_empty(b, key, fault) ==
    LET r == download_file_from_r2(b, key, fault)
    IN IF r.exc # "none" THEN Ret(b, None)
       ELSE IF r.val = None THEN Ret(b, Dict(EmptyMap))
       ELSE LET j == json_loads(r.val)
            IN IF j.exc = "none" THEN Ret(b, j.val) ELSE Ret(b, None)

load_json_from_r2(b, key, fault) ==
    LET r == download_file_from_r2(b, key, fault)
    IN IF r.exc # "none" THEN Ret(b, None)
       ELSE IF r.val = None THEN Ret(b, None)
       ELSE LET j == json_loads(r.val)
            IN IF j.exc = "none" THEN Ret(b, j.val) ELSE Ret(b, None)

\* datetime.isoformat(): fixed-width, zero-padded fields (here two digits
\* of a day count), compared as strings
IsoFormat(t) == <<t \div 10, t % 10>>

\* dict.get(key, default)
DictGet(d, key, default) == IF key \in DOMAIN d[2] THEN d[2][key] ELSE default

\* `if metadata:` is false for None and for the empty dict
Truthy(v) == v # None /\ v # Dict(EmptyMap)

\* a default later than every cutoff
upload_date_of_recent(m) ==
    DictGet(m, "upload_date", Str(IsoFormat(Epoch + Horizon + 1)))[2]

upload_date_of(m) == DictGet(m, "upload_date", Str(<<>>))[2]

\* files.sort(key=upload_date, reverse=True): stable, most recent first
RECURSIVE SortByUploadDate(_)
SortByUploadDate(s) ==
    IF s = <<>> THEN <<>>
    ELSE LET init == SortByUploadDate(SubSeq(s, 1, Len(s) - 1))
             x == s[Len(s)]
             pos == Cardinality({i \in DOMAIN init :
                        ~StrLess(upload_date_of(init[i]), upload_date_of(x))})
         IN SubSeq(init, 1, pos) \o <<x>> \o SubSeq(init, pos + 1, Len(init))

list_user_files(b, user_id, fv) ==
    LET r == list_objects_with_prefix(b, file_prefix(user_id), fv[1])
    IN IF r.exc # "none" THEN Ret(b, <<>>)
       ELSE LET metadata_keys == SelectSeq(r.val, IsMetadataKey)
                loaded == [i \in DOMAIN metadata_keys |->
                              load_json_from_r2(b, metadata_keys[i], fv[1 + i]).val]
                files == SelectSeq(loaded, Truthy)
            IN Ret(b, SortByUploadDate(files))

\* a delete that removes the user's profile with the file
delete_user_file_account(b, user_id, file_id, fv) ==
    LET metadata_key == file_metadata_key(user_id, file_id)
        report_key == file_report_key(user_id, file_id)
        m == load_json_from_r2(b, metadata_key, fv[1])
    IN IF m.val = None THEN Ret(b, FALSE)
       ELSE IF "file_key" \notin DOMAIN m.val[2] THEN Ret(b, FALSE)
       ELSE LET d1 == delete_file_from_r2(b, m.val[2]["file_key"][2], fv[2])
                d2 == delete_file_from_r2(d1.bucket, metadata_key, fv[3])
                d3 == delete_file_from_r2(d2.bucket, report_key, fv[4])
            IN IF d1.exc # "none" THEN Ret(d1.bucket, FALSE)
               ELSE IF d2.exc # "none" THEN Ret(d2.bucket, FALSE)
               ELSE IF d3.exc # "none" THEN Ret(d3.bucket, FALSE)
               ELSE Ret(Without(d3.bucket, user_profile_key(user_id)), TRUE)

\* a delete that removes the report when the metadata cannot be read
delete_user_file_blind(b, user_id, file_id, fv) ==
    LET metadata_key == file_metadata_key(user_id, file_id)
        report_key == file_report_key(user_id, file_id)
        m == load_json_from_r2(b, metadata_key, fv[1])
    IN IF m.val = None \/ "file_key" \notin DOMAIN m.val[2]
       THEN Ret(delete_file_from_r2(b, report_key, "ok").bucket, TRUE)
       ELSE LET d1 == delete_file_from_r2(b, m.val[2]["file_key"][2], fv[2])
                d2 == delete_file_from_r2(d1.bucket, metadata_key, fv[3])
                d3 == delete_file_from_r2(d2.bucket, report_key, fv[4])
            IN IF d1.exc # "none" THEN Ret(d1.bucket, FALSE)
               ELSE IF d2.exc # "none" THEN Ret(d2.bucket, FALSE)
               ELSE IF d3.exc # "none" THEN Ret(d3.bucket, FALSE)
               ELSE Ret(d3.bucket, TRUE)

delete_user_file(b, user_id, file_id, fv) ==
    LET metadata_key == file_metadata_key(user_id, file_id)
        report_key == file_report_key(user_id, file_id)
        m == load_json_from_r2(b, metadata_key, fv[1])
    IN IF m.val = None THEN Ret(b, FALSE)
       ELSE IF "file_key" \notin DOMAIN m.val[2] THEN Ret(b, FALSE)
       ELSE LET d1 == delete_file_from_r2(b, m.val[2]["file_key"][2], fv[2])
                d2 == delete_file_from_r2(d1.bucket, metadata_key, fv[3])
                d3 == delete_file_from_r2(d2.bucket, report_key, fv[4])
            IN IF d1.exc # "none" THEN Ret(d1.bucket, FALSE)
               ELSE IF d2.exc # "none" THEN Ret(d2.bucket, FALSE)
               ELSE IF d3.exc # "none" THEN Ret(d3.bucket, FALSE)
               ELSE Ret(d3.bucket, TRUE)

get_all_user_ids(b, fault) ==
    LET r == load_json_from_r2(b, users_index_key, fault)
    IN IF r.val = None THEN Ret(b, <<>>)
       ELSE IF "users" \notin DOMAIN r.val[2] THEN Ret(b, <<>>)
       ELSE LET users == r.val[2]["users"][2]
                emails == SetToSeq(DOMAIN users)
            IN Ret(b, [i \in DOMAIN emails |-> users[emails[i]][2]])

\* ------------------------------------------------------- scheduler.py
\* the store's answers to n consecutive calls, from position off + 1
Shift(fv, off, n) == [i \in 1..n |-> fv[off + i]]

\* the loop over one user's files; acc is the run so far, acc.calls the
\* positions of the store calls it made
RECURSIVE cleanup_files(_, _, _, _, _, _)
cleanup_files(acc, user_id, files, cutoff_date_str, fv, off) ==
    IF files = <<>> THEN acc
    ELSE LET file_metadata == Head(files)
             upload_date_str == upload_date_of(file_metadata)
         IN IF ~StrLess(upload_date_str, cutoff_date_str)
            THEN cleanup_files(acc, user_id, Tail(files), cutoff_date_str, fv, off + 4)
            ELSE IF "file_id" \notin DOMAIN file_metadata[2]
            THEN [acc EXCEPT !.error_count = @ + 1]
            ELSE LET file_id == file_metadata[2]["file_id"][2]
                     dfv == Shift(fv, off, 4)
                     success == delete_user_file(acc.bucket, user_id, file_id, dfv)
                     loaded == load_json_from_r2(acc.bucket,
                                   file_metadata_key(user_id, file_id), dfv[1]).val # None
                     faulted == dfv[1] # "ok"
                                \/ (loaded /\ \E i \in 2..4 : dfv[i] # "ok")
                     made == {off + 1} \cup
                             (IF ~loaded THEN {}
                              ELSE {off + i : i \in {j \in 2..4 :
                                       \A l \in 2..(j - 1) :
                                           dfv[l] \in {"ok", "ClientError"}}})
                 IN cleanup_files(
                        [acc EXCEPT
                            !.bucket = success.bucket,
                            !.deleted_count = IF success.val = TRUE THEN @ + 1 ELSE @,
                            !.error_count = IF success.val = TRUE THEN @ ELSE @ + 1,
                            !.failed = IF faulted THEN @ \cup {<<user_id, file_id>>}
                                       ELSE @,
                            !.calls = @ \cup made],
                        user_id, Tail(files), cutoff_date_str, fv, off + 4)

\* the calls one user's pass may make: one listing, a load per metadata
\* key, four per delete_user_file
CallsPerUser == 1 + MaxFiles + 4 * MaxFiles

\* the loop over the user ids
RECURSIVE cleanup_users(_, _, _, _, _)
cleanup_users(acc, user_ids, cutoff_date_str, fv, off) ==
    IF user_ids = <<>> THEN acc
    ELSE LET user_id == Head(user_ids)
             files == list_user_files(acc.bucket, user_id,
                                      Shift(fv, off, 1 + MaxFiles)).val
             keys == list_objects_with_prefix(acc.bucket, file_prefix(user_id),
                                              fv[off + 1])
             listed == IF keys.exc = "none" THEN keys.val ELSE <<>>
             loads == {off + 1 + i : i \in 1..Len(SelectSeq(listed, IsMetadataKey))}
             acc2 == cleanup_files([acc EXCEPT !.calls = @ \cup {off + 1} \cup loads],
                                   user_id, files, cutoff_date_str, fv,
                                   off + 1 + MaxFiles)
         IN cleanup_users([acc2 EXCEPT !.visited = Append(@, user_id)],
                          Tail(user_ids), cutoff_date_str, fv, off + CallsPerUser)

\* one iteration of the loop over the user ids whose except clause raises
\* again: the exception ends the run
sweep_user_reraise(acc, user_id, cutoff_date_str, fv) ==
    LET r == cleanup_users(acc, <<user_id>>, cutoff_date_str, fv, 0)
    IN IF r.error_count > acc.error_count
       THEN [r EXCEPT !.exc = "Exception"]
       ELSE r

\* one iteration of the loop over the user ids, its try/except included
sweep_user(acc, user_id, cutoff_date_str, fv) ==
    cleanup_users(acc, <<user_id>>, cutoff_date_str, fv, 0)

cleanup_old_files(b, t, fv) ==
    LET cutoff_date_str == IsoFormat(t - DATA_RETENTION_DAYS)
        user_ids == get_all_user_ids(b, fv[1]).val
    IN cleanup_users([bucket |-> b, deleted_count |-> 0, error_count |-> 0,
                      cutoff |-> cutoff_date_str, failed |-> {}, visited |-> <<>>,
                      user_ids |-> user_ids, calls |-> {1}, exc |-> "none"],
                     user_ids, cutoff_date_str, fv, 1)

\* ------------------------------------------------------------ auth.py
get_password_hash(password) == <<"bcrypt", password>>
\* a check that takes every password
verify_password_any(plain_password, hashed_password) == TRUE

verify_password(plain_password, hashed_password) ==
    hashed_password = <<"bcrypt", plain_password>>

EmptyIndex == Dict([users |-> Dict(EmptyMap)])

create_user_nocheck(b, email, password, full_name, user_id, t, fv) ==
    LET r1 == load_json_from_r2(b, users_index_key, fv[1])
        users_index == IF r1.val = None THEN EmptyIndex ELSE r1.val
        users == users_index[2]["users"][2]
        user_data == Dict([user_id |-> Str(user_id), email |-> Str(email),
                           full_name |-> Str(full_name),
                           hashed_password |-> Str(get_password_hash(password)),
                           created_at |-> Str(IsoFormat(t))])
        r2 == save_json_to_r2(b, user_profile_key(user_id), user_data, fv[2])
        index2 == Dict([users_index[2] EXCEPT
                           !["users"] = Dict((email :> Str(user_id)) @@ users)])
        r3 == save_json_to_r2(r2.bucket, users_index_key, index2, fv[3])
    IN Ret(r3.bucket, Str(user_id))

create_user(b, email, password, full_name, user_id, t, fv) ==
    LET r1 == load_json_from_r2(b, users_index_key, fv[1])
        users_index == IF r1.val = None THEN EmptyIndex ELSE r1.val
        users == users_index[2]["users"][2]
    IN IF email \in DOMAIN users THEN Raise(b, "ValueError")
       ELSE LET user_data == Dict([user_id |-> Str(user_id), email |-> Str(email),
                                   full_name |-> Str(full_name),
                                   hashed_password |-> Str(get_password_hash(password)),
                                   created_at |-> Str(IsoFormat(t))])
                r2 == save_json_to_r2(b, user_profile_key(user_id), user_data, fv[2])
                index2 == Dict([users_index[2] EXCEPT
                                   !["users"] = Dict((email :> Str(user_id)) @@ users)])
                r3 == save_json_to_r2(r2.bucket, users_index_key, index2, fv[3])
            IN Ret(r3.bucket, Str(user_id))

\* create_user to its check: the index it read, or the ValueError
create_user_check(b, email, fault) ==
    LET r1 == load_json_from_r2(b, users_index_key, fault)
        users_index == IF r1.val = None THEN EmptyIndex ELSE r1.val
    IN IF email \in DOMAIN users_index[2]["users"][2] THEN Raise(b, "ValueError")
       ELSE Ret(b, users_index)

\* create_user from the check on, reading the index again before it is
\* written
create_user_write_reread(b, users_index, email, password, full_name, user_id, t, fv) ==
    LET user_data == Dict([user_id |-> Str(user_id), email |-> Str(email),
                           full_name |-> Str(full_name),
                           hashed_password |-> Str(get_password_hash(password)),
                           created_at |-> Str(IsoFormat(t))])
        r2 == save_json_to_r2(b, user_profile_key(user_id), user_data, fv[1])
        r1 == load_json_from_r2(r2.bucket, users_index_key, "ok")
        fresh == IF r1.val = None THEN EmptyIndex ELSE r1.val
        index2 == Dict([fresh[2] EXCEPT
                           !["users"] = Dict((email :> Str(user_id))
                                             @@ fresh[2]["users"][2])])
        r3 == save_json_to_r2(r2.bucket, users_index_key, index2, fv[2])
    IN Ret(r3.bucket, Str(user_id))

\* create_user from the check on: the profile, then the index as it was
\* read with the new email added
create_user_write(b, users_index, email, password, full_name, user_id, t, fv) ==
    LET user_data == Dict([user_id |-> Str(user_id), email |-> Str(email),
                           full_name |-> Str(full_name),
                           hashed_password |-> Str(get_password_hash(password)),
                           created_at |-> Str(IsoFormat(t))])
        r2 == save_json_to_r2(b, user_profile_key(user_id), user_data, fv[1])
        index2 == Dict([users_index[2] EXCEPT
                           !["users"] = Dict((email :> Str(user_id))
                                             @@ users_index[2]["users"][2])])
        r3 == save_json_to_r2(r2.bucket, users_index_key, index2, fv[2])
    IN Ret(r3.bucket, Str(user_id))

authenticate_user(b, email, password, fv) ==
    LET r1 == load_json_from_r2(b, users_index_key, fv[1])
    IN IF r1.val = None THEN Ret(b, None)
       ELSE IF email \notin DOMAIN r1.val[2]["users"][2] THEN Ret(b, None)
       ELSE LET user_id == r1.val[2]["users"][2][email][2]
                r2 == load_json_from_r2(b, user_profile_key(user_id), fv[2])
            IN IF r2.val = None THEN Ret(b, None)
               ELSE IF ~verify_password(password, r2.val[2]["hashed_password"][2])
                    THEN Ret(b, None)
               ELSE Ret(b, Dict([k \in {"user_id", "email", "full_name", "created_at"}
                                    |-> r2.val[2][k]]))

\* ------------------------------------------------------------ main.py
\* file.filename.endswith((".xlsx", ".xls"))
IsExcelName(filename) == filename \in {"data.xlsx", "sheet.xls"}

\* upload_file up to the first metadata write; val is the metadata dict
upload_file_begin(b, user_id, file_id, filename, content, t, fv) ==
    LET file_key == file_payload_key(user_id, file_id, filename)
        r1 == upload_file_to_r2(b, file_key, content, fv[1])
        metadata == Dict([file_id |-> Str(file_id), filename |-> Str(filename),
                          user_id |-> Str(user_id), upload_date |-> Str(IsoFormat(t)),
                          file_size |-> Num(1), status |-> Str("processing"),
                          file_key |-> Str(file_key)])
        r2 == save_json_to_r2(r1.bucket, file_metadata_key(user_id, file_id),
                              metadata, fv[2])
    IN IF r1.exc # "none" THEN Raise(b, "HTTP500") ELSE Ret(r2.bucket, metadata)

\* an exception raised between the download and the report (writing or
\* removing the temporary file), in place of an analysis result
Raised(e) == <<"raise", e>>

\* metadata["status"] = "completed" without the analysis date
completed_metadata_nodate(metadata, t) ==
    Dict(("status" :> Str("completed")) @@ metadata[2])

\* metadata["status"] = "completed"; metadata["analysis_date"] = ...
completed_metadata(metadata, t) ==
    Dict(("status" :> Str("completed")) @@ ("analysis_date" :> Str(IsoFormat(t)))
         @@ metadata[2])

\* metadata["status"] = "failed"; metadata["error"] = str(e)
failed_metadata(metadata) ==
    Dict(("status" :> Str("failed")) @@ ("error" :> Str("e")) @@ metadata[2])

\* upload_file from the analysis on: the report, then the final status
upload_file_finish(b, user_id, file_id, metadata, analysis_result, t, fv) ==
    LET metadata_key == file_metadata_key(user_id, file_id)
        d == download_file_from_r2(b, metadata[2]["file_key"][2], fv[1])
    IN IF d.exc # "none" \/ d.val = None \/ analysis_result[1] = "raise"
       THEN LET failed == failed_metadata(metadata)
                r == save_json_to_r2(b, metadata_key, failed, fv[2])
            IN Raise(r.bucket, "HTTP500")
       ELSE LET report == Dict([file_id |-> Str(file_id),
                                filename |-> metadata[2]["filename"],
                                analysis_date |-> Str(IsoFormat(t)),
                                results |-> analysis_result])
                r2 == save_json_to_r2(b, file_report_key(user_id, file_id), report, fv[2])
                completed == completed_metadata(metadata, t)
                r3 == save_json_to_r2(r2.bucket, metadata_key, completed, fv[3])
            IN Ret(r3.bucket, Str("completed"))

delete_file(b, user_id, file_id, fv) ==
    LET metadata_key == file_metadata_key(user_id, file_id)
        report_key == file_report_key(user_id, file_id)
        m == load_json_from_r2(b, metadata_key, fv[1])
    IN IF ~Truthy(m.val) THEN Raise(b, "HTTP404")
       ELSE IF "file_key" \notin DOMAIN m.val[2] THEN Raise(b, "HTTP500")
       ELSE LET d1 == delete_file_from_r2(b, m.val[2]["file_key"][2], fv[2])
                d2 == delete_file_from_r2(d1.bucket, metadata_key, fv[3])
                d3 == delete_file_from_r2(d2.bucket, report_key, fv[4])
            IN IF d1.exc # "none" THEN Raise(d1.bucket, "HTTP500")
               ELSE IF d2.exc # "none" THEN Raise(d2.bucket, "HTTP500")
               ELSE IF d3.exc # "none" THEN Raise(d3.bucket, "HTTP500")
               ELSE Ret(d3.bucket, Str("File deleted successfully"))

\* --------------------------------------------------------- the state
VARIABLES
    bucket,       \* the R2 bucket: object key -> ciphertext
    now,          \* the clock, in days
    issuedUsers,  \* the user ids uuid4 has returned
    issuedFiles,  \* the file ids uuid4 has returned
    up,           \* the upload in flight, or NoUpload
    reg,          \* the create_user call in flight in another process, or NoReg
    sw,           \* the sweep: its position, its locals, its history
    saved,        \* history: key -> the record of the last successful direct save
    resp,         \* history: the last call and its outcome
    faults        \* history: the number of store faults so far

vars == <<bucket, now, issuedUsers, issuedFiles, up, reg, sw, saved, resp, faults>>
appVars == <<now, issuedUsers, issuedFiles, up, reg, sw>>

NoRecord == <<"norecord">>

\* the keys and values the direct calls of the storage API are tried on
StoreDocKeys == {file_metadata_key(1, 1), file_report_key(1, 1), file_metadata_key(1, 2)}
StoreBlobKeys ==
    {file_payload_key(1, 1, "data.xlsx"), file_payload_key(1, 2, "data.xlsx"),
     file_payload_key(2, 1, "data.xlsx")}
StoreKeys == StoreDocKeys \cup StoreBlobKeys
StorePrefixes == {file_prefix(1), file_prefix(2)}
StoreRecords ==
    {Dict([file_id |-> Str(1), file_size |-> Num(3), error |-> None]),
     Dict([users |-> Dict([e \in {"a@x.com"} |-> Str(1)])]),
     Dict([results |-> PyObj("Timestamp")])}
StoreContents == {RawBytes("xlsx")}

NoUpload == [user_id |-> 0, file_id |-> 0, metadata |-> None]

NoReg == [pc |-> "idle"]

NoSweep ==
    [pc |-> "idle", pre |-> EmptyMap, deleted_count |-> 0,
     error_count |-> 0, cutoff |-> <<>>, failed |-> {}, visited |-> <<>>,
     user_ids |-> <<>>, exc |-> "none"]

Init ==
    /\ bucket = EmptyMap
    /\ now = Epoch
    /\ issuedUsers = {}
    /\ issuedFiles = {}
    /\ up = NoUpload
    /\ reg = NoReg
    /\ sw = NoSweep
    /\ saved = [k \in StoreKeys |-> NoRecord]
    /\ resp = [op |-> "none"]
    /\ faults = 0

\* the object at the key exists and its content is no JSON text
Malformed(b, key) ==
    /\ key \in DOMAIN b
    /\ decrypt_data(b[key]).exc = "none"
    /\ json_loads(decrypt_data(b[key]).val).exc # "none"

\* save_json_to_r2(key, data)
StoreSaveJson(key, data, fault) ==
    LET r == save_json_to_r2(bucket, key, data, fault)
    IN /\ bucket' = r.bucket
       /\ saved' = IF r.val = TRUE
                   THEN [saved EXCEPT ![key] = data] ELSE saved
       /\ resp' = [op |-> "save_json", key |-> key, exc |-> r.exc, val |-> r.val,
                   over |-> r.val = TRUE /\ saved[key] # NoRecord /\ saved[key] # data]
       /\ UNCHANGED <<appVars, faults>>

\* load_json_from_r2(key)
StoreLoadJson(key, fault) ==
    LET r == load_json_from_r2(bucket, key, fault)
    IN /\ bucket' = r.bucket
       /\ resp' = [op |-> "load_json", key |-> key, fault |-> fault,
                   exc |-> r.exc, val |-> r.val,
                   existed |-> key \in DOMAIN bucket,
                   malformed |-> Malformed(bucket, key),
                   changed |-> r.bucket # bucket,
                   afterDelete |-> /\ resp.op = "delete"
                                   /\ resp.key = key
                                   /\ resp.existed
                                   /\ resp.changed,
                   afterOver |-> /\ resp.op = "save_json"
                                 /\ resp.key = key
                                 /\ resp.over]
       /\ UNCHANGED <<appVars, saved, faults>>

\* upload_file_to_r2(key, content)
StoreUpload(key, content, fault) ==
    LET r == upload_file_to_r2(bucket, key, content, fault)
    IN /\ bucket' = r.bucket
       /\ saved' = IF r.exc = "none" /\ r.val = TRUE
                   THEN [saved EXCEPT ![key] = NoRecord]
                   ELSE saved
       /\ resp' = [op |-> "upload", key |-> key, fault |-> fault,
                   exc |-> r.exc, val |-> r.val, changed |-> r.bucket # bucket]
       /\ UNCHANGED <<appVars, faults>>

\* download_file_from_r2(key)
StoreDownload(key, fault) ==
    LET r == download_file_from_r2(bucket, key, fault)
    IN /\ bucket' = r.bucket
       /\ resp' = [op |-> "download", key |-> key, fault |-> fault,
                   exc |-> r.exc, val |-> r.val, changed |-> r.bucket # bucket]
       /\ UNCHANGED <<appVars, saved, faults>>

\* delete_file_from_r2(key)
StoreDelete(key, fault) ==
    LET r == delete_file_from_r2(bucket, key, fault)
    IN /\ bucket' = r.bucket
       /\ saved' = IF r.exc = "none" /\ r.val = TRUE
                   THEN [saved EXCEPT ![key] = NoRecord]
                   ELSE saved
       /\ resp' = [op |-> "delete", key |-> key, fault |-> fault,
                   exc |-> r.exc, val |-> r.val,
                   existed |-> key \in DOMAIN bucket,
                   changed |-> r.bucket # bucket,
                   again |-> /\ resp.op = "delete"
                             /\ resp.key = key
                             /\ ~resp.existed
                             /\ resp.fault = "ok"
                             /\ resp.exc = "none"
                             /\ resp.val = TRUE
                             /\ key \notin DOMAIN bucket]
       /\ UNCHANGED <<appVars, faults>>

\* list_objects_with_prefix(prefix)
StoreList(prefix, fault) ==
    LET r == list_objects_with_prefix(bucket, prefix, fault)
    IN /\ bucket' = r.bucket
       /\ resp' = [op |-> "list", prefix |-> prefix, fault |-> fault,
                   exc |-> r.exc, val |-> r.val]
       /\ UNCHANGED <<appVars, saved, faults>>

\* ------------------------------------------------ the application
FullNames == {"Ann"}
FileContents == {RawBytes("xlsx")}
\* what the analysis step yields: a dict json.dumps takes, one it rejects
\* (a date cell in the preview rows), or an OSError on the temporary file
AnalysisResults ==
    {Dict([summary |-> Num(1)]), Dict([preview |-> PyObj("Timestamp")]),
     Raised("OSError")}

Ok(n) == [i \in 1..n |-> "ok"]
NFaults(fv) == Cardinality({i \in DOMAIN fv : fv[i] # "ok"})
\* the answers to n calls with at most k faults among them
RECURSIVE FaultVectorsAt(_, _, _)
FaultVectorsAt(n, k, calls) ==
    IF k <= 0 THEN {Ok(n)}
    ELSE LET less == FaultVectorsAt(n, k - 1, calls)
         IN less \cup {[fv EXCEPT ![i] = f] :
                          fv \in less, i \in calls, f \in Faults \ {"ok"}}
FaultVectors(n, k) == FaultVectorsAt(n, k, 1..n)
\* the store's answers to the (at most n) calls of one handler
FV(n) == FaultVectors(n, MaxFaults - faults)
\* the store's answers to a sweep: faults on the calls the sweep makes
SweepCalls == 1 + MaxUsers * CallsPerUser
SweepFV(calls) == FaultVectorsAt(SweepCalls, MaxFaults - faults, calls)

\* the first handler after a sweep forgets the sweep's history
Touch == IF sw.pc = "done" THEN NoSweep ELSE sw

NoResp == [op |-> "none"]

\* one day passes; no request is in flight over midnight
Tick ==
    /\ now < Epoch + Horizon
    /\ up = NoUpload
    /\ now' = now + 1
    /\ UNCHANGED <<bucket, issuedUsers, issuedFiles, up, sw, saved, reg, resp, faults>>

\* an identifier that may have been returned before
uuid4_reuse(issued, ids) == ids

\* uuid.uuid4(): an identifier not returned before
uuid4(issued, ids) == {x \in ids \ issued : \A y \in ids \ issued : x <= y}

\* the stored index, read without fault
IndexUsers(b) ==
    LET r == load_json_from_r2(b, users_index_key, "ok")
    IN IF r.val = None THEN EmptyMap ELSE r.val[2]["users"][2]

\* POST /api/auth/register
Register(email, password, full_name, fv) ==
    /\ up = NoUpload
    /\ \E user_id \in IF uuid4(issuedUsers, UserIds) = {} THEN {0}
                       ELSE uuid4(issuedUsers, UserIds) :
        LET r == create_user(bucket, email, password, full_name, user_id, now, fv)
        IN /\ r.exc = "none" => user_id # 0
           /\ bucket' = r.bucket
           /\ issuedUsers' = IF r.exc = "none" THEN issuedUsers \cup {user_id}
                             ELSE issuedUsers
           /\ resp' = [op |-> "create_user", exc |-> r.exc,
                       dup |-> email \in DOMAIN IndexUsers(bucket),
                       served |-> fv[1] = "ok",
                       changed |-> r.bucket # bucket]
           /\ sw' = Touch
           /\ faults' = faults + NFaults(fv)
           /\ UNCHANGED <<now, issuedFiles, up, saved, reg>>

\* POST /api/auth/login
Login(email, password, fv) ==
    LET r == authenticate_user(bucket, email, password, fv)
    IN /\ up = NoUpload
       /\ resp' = [op |-> "login", ok |-> r.val # None]
       /\ sw' = Touch
       /\ faults' = faults + NFaults(fv)
       /\ UNCHANGED <<bucket, now, issuedUsers, issuedFiles, up, saved, reg>>

\* POST /api/files/upload, to the first metadata write
UploadBegin(user_id, filename, content, fv) ==
    /\ user_id \in issuedUsers
    /\ up = NoUpload
    /\ IF ~IsExcelName(filename)
       THEN /\ resp' = NoResp
            /\ sw' = Touch
            /\ NFaults(fv) = 0
            /\ UNCHANGED <<bucket, issuedFiles, up, faults>>
       ELSE \E file_id \in uuid4(issuedFiles, FileIds) :
               LET r == upload_file_begin(bucket, user_id, file_id, filename,
                                          content, now, fv)
               IN /\ bucket' = r.bucket
                  /\ issuedFiles' = issuedFiles \cup {file_id}
                  /\ up' = IF r.exc = "none"
                           THEN [user_id |-> user_id, file_id |-> file_id,
                                 metadata |-> r.val]
                           ELSE NoUpload
                  /\ resp' = NoResp
                  /\ sw' = Touch
                  /\ faults' = faults + NFaults(fv)
    /\ UNCHANGED <<now, issuedUsers, saved, reg>>

\* POST /api/files/upload, from the analysis on
UploadFinish(analysis_result, fv) ==
    /\ up # NoUpload
    /\ LET r == upload_file_finish(bucket, up.user_id, up.file_id, up.metadata,
                                   analysis_result, now, fv)
       IN /\ bucket' = r.bucket
          /\ resp' = NoResp
          /\ sw' = Touch
    /\ up' = NoUpload
    /\ faults' = faults + NFaults(fv)
    /\ UNCHANGED <<now, issuedUsers, issuedFiles, saved, reg>>

\* DELETE /api/files/{file_id}
DeleteFile(user_id, file_id, fv) ==
    /\ user_id \in issuedUsers
    /\ up = NoUpload
    /\ LET r == delete_file(bucket, user_id, file_id, fv)
       IN /\ bucket' = r.bucket
          /\ resp' = NoResp
          /\ sw' = Touch
    /\ faults' = faults + NFaults(fv)
    /\ UNCHANGED <<now, issuedUsers, issuedFiles, up, saved, reg>>

\* cleanup_old_files(), one run
Cleanup(fv) ==
    /\ \E r \in {cleanup_old_files(bucket, now, fv)} :
          /\ bucket' = r.bucket
          /\ sw' = [pc |-> "done", pre |-> bucket,
                    deleted_count |-> r.deleted_count,
                    error_count |-> r.error_count, cutoff |-> r.cutoff,
                    failed |-> r.failed, visited |-> r.visited,
                    user_ids |-> r.user_ids, exc |-> r.exc]
    /\ resp' = NoResp
    /\ faults' = faults + NFaults(fv)
    /\ UNCHANGED <<now, issuedUsers, issuedFiles, up, saved, reg>>

\* the file service: requests the store serves, and a sweep it may fail
Next ==
    \/ Tick
    \/ \E e \in Emails, p \in RegPasswords, n \in FullNames : Register(e, p, n, Ok(3))
    \/ \E u \in UserIds, n \in Filenames, c \in FileContents : UploadBegin(u, n, c, Ok(2))
    \/ \E a \in AnalysisResults : UploadFinish(a, Ok(3))
    \/ \E u \in UserIds, f \in FileIds : DeleteFile(u, f, Ok(4))
    \/ \E calls \in {cleanup_old_files(bucket, now, Ok(SweepCalls)).calls} :
          \E fv \in SweepFV(calls) : Cleanup(fv)

Spec == Init /\ [][Next]_vars

\* cleanup_old_files() step by step: the cutoff and the user ids
SweepStart(fault) ==
    /\ sw.pc \in {"idle", "done"}
    /\ sw' = [NoSweep EXCEPT !.pc = "users",
                             !.cutoff = IsoFormat(now - DATA_RETENTION_DAYS),
                             !.user_ids = get_all_user_ids(bucket, fault).val]
    /\ resp' = NoResp
    /\ faults' = faults + NFaults(<<fault>>)
    /\ UNCHANGED <<bucket, now, issuedUsers, issuedFiles, up, saved, reg>>

\* the user ids the loop has not reached
SweepTodo == SubSeq(sw.user_ids, Len(sw.visited) + 1, Len(sw.user_ids))

\* the run so far, as the loops carry it
SweepAcc ==
    [bucket |-> bucket, deleted_count |-> sw.deleted_count,
     error_count |-> sw.error_count, cutoff |-> sw.cutoff, failed |-> sw.failed,
     visited |-> sw.visited, user_ids |-> sw.user_ids, calls |-> {}, exc |-> sw.exc]

\* cleanup_old_files() step by step: one user
SweepUser(fv) ==
    /\ sw.pc = "users"
    /\ sw.exc = "none"
    /\ SweepTodo # <<>>
    /\ \E r \in {sweep_user(SweepAcc, Head(SweepTodo), sw.cutoff, fv)} :
          /\ bucket' = r.bucket
          /\ sw' = [sw EXCEPT !.deleted_count = r.deleted_count,
                              !.error_count = r.error_count,
                              !.failed = r.failed,
                              !.visited = r.visited,
                              !.exc = r.exc]
    /\ resp' = NoResp
    /\ faults' = faults + NFaults(fv)
    /\ UNCHANGED <<now, issuedUsers, issuedFiles, up, saved, reg>>

\* cleanup_old_files() step by step: the summary, or the outer except
SweepEnd ==
    /\ sw.pc = "users"
    /\ SweepTodo = <<>> \/ sw.exc # "none"
    /\ sw' = [sw EXCEPT !.pc = "done"]
    /\ UNCHANGED <<bucket, now, issuedUsers, issuedFiles, up, saved, reg, resp, faults>>

\* the store's answers to one user's pass: faults on the calls it makes
SweepUserFV ==
    FaultVectorsAt(CallsPerUser, MaxFaults - faults,
                   sweep_user(SweepAcc, Head(SweepTodo), sw.cutoff,
                              Ok(CallsPerUser)).calls)

SweepStep ==
    \/ \E fv \in IF sw.pc = "users" /\ SweepTodo # <<>> THEN SweepUserFV ELSE {} :
          SweepUser(fv)
    \/ SweepEnd

\* no request is in progress while a run of the sweep is
Quiet == sw.pc # "users"

\* one run of the sweep at a time from the stores the served requests build
NextSweepRun ==
    \/ Quiet /\ Tick
    \/ Quiet /\ \E e \in Emails, p \in RegPasswords, n \in FullNames :
                    Register(e, p, n, Ok(3))
    \/ Quiet /\ \E u \in UserIds, c \in FileContents :
                    UploadBegin(u, "data.xlsx", c, Ok(2))
    \/ Quiet /\ UploadFinish(Dict([summary |-> Num(1)]), Ok(3))
    \/ \E f \in Faults : faults + NFaults(<<f>>) <= MaxFaults /\ SweepStart(f)
    \/ SweepStep

\* a run in progress has a next step: the loop's next user, or the end
SweepCanStep ==
    \/ SweepTodo = <<>>
    \/ sw.exc # "none"
    \/ SweepUserFV # {}

\* the scheduler's thread keeps running the job: weak fairness of SweepStep,
\* WF_vars(SweepStep), with ENABLED <<SweepStep>>_vars written as the state
\* predicate it equals, sw.pc = "users" (SweepCanStep holds in those states
\* and every step of the run changes sw)
SweepFair == []<>(sw.pc # "users") \/ []<><<SweepStep>>_vars

SpecSweepRun == Init /\ [][NextSweepRun]_vars /\ SweepFair

\* create_user in another server process, to its check of the index
CreateUserRead(email, password, full_name) ==
    /\ reg = NoReg
    /\ \E r \in {create_user_check(bucket, email, "ok")} :
          /\ reg' = IF r.exc # "none" THEN NoReg
                    ELSE [pc |-> "checked", email |-> email, password |-> password,
                          full_name |-> full_name, users_index |-> r.val]
          /\ resp' = [op |-> "create_user_check", exc |-> r.exc]
    /\ sw' = Touch
    /\ UNCHANGED <<bucket, now, issuedUsers, issuedFiles, up, saved, faults>>

\* create_user in another server process, from its check on
CreateUserWrite ==
    /\ reg # NoReg
    /\ \E user_id \in uuid4(issuedUsers, UserIds) :
          \E r \in {create_user_write(bucket, reg.users_index, reg.email,
                                      reg.password, reg.full_name, user_id, now,
                                      Ok(2))} :
             /\ bucket' = r.bucket
             /\ issuedUsers' = issuedUsers \cup {user_id}
             /\ resp' = [op |-> "create_user_write", exc |-> r.exc,
                         email |-> reg.email, user_id |-> user_id,
                         read |-> reg.users_index[2]["users"][2],
                         before |-> IndexUsers(bucket)]
    /\ reg' = NoReg
    /\ sw' = Touch
    /\ UNCHANGED <<now, issuedFiles, up, saved, faults>>

\* delete_file in another server process while an upload is in progress
DeleteFileBeside(user_id, file_id, fv) ==
    /\ user_id \in issuedUsers
    /\ up # NoUpload
    /\ \E r \in {delete_file(bucket, user_id, file_id, fv)} :
          bucket' = r.bucket
    /\ resp' = NoResp
    /\ sw' = Touch
    /\ faults' = faults + NFaults(fv)
    /\ UNCHANGED <<now, issuedUsers, issuedFiles, up, reg, saved>>

\* several server processes over one bucket: the requests of one beside a
\* create_user call or a delete_file call of another; the store serves
\* every call
NextRace ==
    \/ Tick
    \/ \E e \in Emails, p \in RegPasswords, n \in FullNames : Register(e, p, n, Ok(3))
    \/ \E e \in Emails, p \in RegPasswords, n \in FullNames : CreateUserRead(e, p, n)
    \/ CreateUserWrite
    \/ \E u \in UserIds, c \in FileContents : UploadBegin(u, "data.xlsx", c, Ok(2))
    \/ UploadFinish(Dict([summary |-> Num(1)]), Ok(3))
    \/ \E u \in UserIds, f \in FileIds : DeleteFile(u, f, Ok(4))
    \/ \E u \in UserIds, f \in FileIds : DeleteFileBeside(u, f, Ok(4))

SpecRace == Init /\ [][NextRace]_vars

\* a metadata document as upload_file writes it, but without upload_date
LegacyMetadata(u, f) ==
    Dict([file_id |-> Str(f), filename |-> Str("data.xlsx"), user_id |-> Str(u),
          file_size |-> Num(1), status |-> Str("completed"),
          file_key |-> Str(file_payload_key(u, f, "data.xlsx"))])

\* the files written without upload_date
LegacyFiles == {<<1, MaxFiles>>}

\* a file stored by direct calls of the storage API: the payload, then a
\* metadata document without upload_date
LegacyWrite(u, f, content) ==
    /\ up = NoUpload
    /\ u \in issuedUsers
    /\ \E r \in {save_json_to_r2(
                     upload_file_to_r2(bucket, file_payload_key(u, f, "data.xlsx"),
                                       content, "ok").bucket,
                     file_metadata_key(u, f), LegacyMetadata(u, f), "ok")} :
          bucket' = r.bucket
    /\ resp' = NoResp
    /\ sw' = Touch
    /\ UNCHANGED <<now, issuedUsers, issuedFiles, up, reg, saved, faults>>

\* files whose metadata has no upload_date beside the uploads, and the sweep
NextLegacy ==
    \/ Tick
    \/ \E e \in Emails, p \in RegPasswords, n \in FullNames : Register(e, p, n, Ok(3))
    \/ \E uf \in LegacyFiles, c \in FileContents : LegacyWrite(uf[1], uf[2], c)
    \/ \E u \in UserIds, c \in FileContents : UploadBegin(u, "data.xlsx", c, Ok(2))
    \/ UploadFinish(Dict([summary |-> Num(1)]), Ok(3))
    \/ \E calls \in {cleanup_old_files(bucket, now, Ok(SweepCalls)).calls} :
          \E fv \in SweepFV(calls) : Cleanup(fv)

SpecLegacy == Init /\ [][NextLegacy]_vars

\* the file requests over a store that may fail
NextFiles ==
    \/ Tick
    \/ \E e \in Emails, p \in RegPasswords, n \in FullNames : Register(e, p, n, Ok(3))
    \/ \E u \in UserIds, n \in Filenames, c \in FileContents, fv \in FV(2) :
          UploadBegin(u, n, c, fv)
    \/ \E a \in AnalysisResults, fv \in FV(3) : UploadFinish(a, fv)
    \/ \E u \in UserIds, f \in FileIds, fv \in FV(4) : DeleteFile(u, f, fv)

SpecFiles == Init /\ [][NextFiles]_vars

\* the accounts: registration and login over a store that may fail
NextAccounts ==
    \/ Tick
    \/ \E e \in Emails, p \in RegPasswords, n \in FullNames, fv \in FV(3) :
          Register(e, p, n, fv)
    \/ \E e \in Emails, p \in Passwords, fv \in FV(2) : Login(e, p, fv)

SpecAccounts == Init /\ [][NextAccounts]_vars

\* --------------------------------------------------------- config.py
\* the fields of Settings without a default
RequiredFields ==
    {"secret_key", "r2_account_id", "r2_access_key_id", "r2_secret_access_key",
     "r2_bucket_name", "r2_endpoint_url", "encryption_key"}

\* the fields of Settings declared int
IntFields == {"access_token_expire_minutes", "data_retention_days"}

\* the fields of Settings with a default, and the default
Defaults ==
    [algorithm |-> Str("hs256"), access_token_expire_minutes |-> Num(30),
     data_retention_days |-> Num(60),
     allowed_origins |-> Str("http://localhost:3000"), log_level |-> Str("INFO")]

SettingsFields == RequiredFields \cup DOMAIN Defaults

\* the variable names of the tests, as written and in lower case
VarNames ==
    {"SECRET_KEY", "R2_ACCOUNT_ID", "R2_ACCESS_KEY_ID", "R2_SECRET_ACCESS_KEY",
     "R2_BUCKET_NAME", "R2_ENDPOINT_URL", "ENCRYPTION_KEY", "DATA_RETENTION_DAYS",
     "CORS_ORIGINS"}

\* name.lower()
Lower(name) ==
    CASE name = "SECRET_KEY" -> "secret_key"
      [] name = "R2_ACCOUNT_ID" -> "r2_account_id"
      [] name = "R2_ACCESS_KEY_ID" -> "r2_access_key_id"
      [] name = "R2_SECRET_ACCESS_KEY" -> "r2_secret_access_key"
      [] name = "R2_BUCKET_NAME" -> "r2_bucket_name"
      [] name = "R2_ENDPOINT_URL" -> "r2_endpoint_url"
      [] name = "ENCRYPTION_KEY" -> "encryption_key"
      [] name = "DATA_RETENTION_DAYS" -> "data_retention_days"
      [] name = "CORS_ORIGINS" -> "cors_origins"
      [] OTHER -> name

\* case_sensitive = True: a variable matches a field only as it is spelled
env_name_case_sensitive(name) == name

\* case_sensitive = False: variable names are compared in lower case
env_name(name) == Lower(name)

\* int(value) of a variable's text, None when it is not a number
ParseInt(value) ==
    CASE value = "60" -> Num(60)
      [] value = "30" -> Num(30)
      [] OTHER -> None

\* the variables of one source by field name
SourceFields(source) ==
    [f \in {env_name(n) : n \in DOMAIN source} |->
        source[CHOOSE n \in DOMAIN source : env_name(n) = f]]

\* Settings(_env_file=env_file) in a process with the environment environ:
\* the environment before the env file before the defaults, variables that
\* name no field ignored, every field without a default required and every
\* int field parsed
Settings(environ, env_file) ==
    LET given == SourceFields(environ) @@ SourceFields(env_file)
        missing == RequiredFields \ DOMAIN given
        invalid == {f \in IntFields \cap DOMAIN given : ParseInt(given[f]) = None}
        field(f) == IF f \notin DOMAIN given THEN Defaults[f]
                    ELSE IF f \in IntFields THEN ParseInt(given[f])
                    ELSE Str(given[f])
    IN IF missing # {} \/ invalid # {}
       THEN [exc |-> "ValidationError", val |-> None]
       ELSE [exc |-> "none", val |-> Dict([f \in SettingsFields |-> field(f)])]

\* a ValidationError is a ValueError
IsValueError(exc) == exc \in {"ValueError", "ValidationError"}

\* where a test puts a variable
Places == {"none", "environ", "env_file"}
\* how a test spells the variable names
Spellings == {"upper", "lower"}
\* the texts a test gives DATA_RETENTION_DAYS
DaysTexts == {"60", "sixty"}

Spelled(name, spelling) == IF spelling = "upper" THEN name ELSE Lower(name)

\* the variables of one source: the required ones placed there, the
\* retention period if given there, CORS_ORIGINS if given there
SourceOf(place, where, spelling, days, cors) ==
    LET names == {n \in VarNames :
                     \/ Lower(n) \in RequiredFields /\ where[Lower(n)] = place
                     \/ n = "DATA_RETENTION_DAYS" /\ days[place] # "none"
                     \/ n = "CORS_ORIGINS" /\ cors = place}
    IN [sn \in {Spelled(n, spelling) : n \in names} |->
           IF Lower(sn) = "data_retention_days" THEN days[place] ELSE "x"]

\* Settings() at start-up, from an environment and an env file
Construct(environ, env_file) ==
    /\ resp = NoResp
    /\ \E r \in {Settings(environ, env_file)} :
          resp' = [op |-> "Settings", environ |-> environ, env_file |-> env_file,
                   exc |-> r.exc, val |-> r.val]
    /\ UNCHANGED <<bucket, now, issuedUsers, issuedFiles, up, sw, saved, reg, faults>>

\* the placements of the required variables: all in the environment but
\* at most MaxElsewhere, which are in the env file or nowhere
Placements ==
    {where \in [RequiredFields -> Places] :
        Cardinality({f \in RequiredFields : where[f] # "environ"}) <= MaxElsewhere}

NextSettings ==
    /\ resp = NoResp
    /\ \E where \in Placements, spelling \in Spellings,
          days \in [{"environ", "env_file"} -> DaysTexts \cup {"none"}],
          cors \in Places :
           Construct(SourceOf("environ", where, spelling, days, cors),
                     SourceOf("env_file", where, spelling, days, cors))

SpecSettings == Init /\ [][NextSettings]_vars

NextStore ==
    \/ \E k \in StoreDocKeys, d \in StoreRecords, f \in Faults : StoreSaveJson(k, d, f)
    \/ \E k \in StoreKeys, f \in Faults : StoreLoadJson(k, f)
    \/ \E k \in StoreBlobKeys, c \in StoreContents, f \in Faults : StoreUpload(k, c, f)
    \/ \E k \in StoreBlobKeys, f \in Faults : StoreDownload(k, f)
    \/ \E k \in StoreKeys, f \in Faults : StoreDelete(k, f)
    \/ \E p \in StorePrefixes, f \in Faults : StoreList(p, f)

SpecStore == Init /\ [][NextStore]_vars

\* ------------------------------------------------------ properties
\* the files of a bucket: <<user_id, file_id>> of every metadata document
FilesOf(b) == {<<k[2], k[4]>> : k \in {x \in DOMAIN b : IsMetadataKey(x)}}
MetadataOf(b, uf) == load_json_from_r2(b, file_metadata_key(uf[1], uf[2]), "ok").val
\* the objects of a file in a bucket
ObjectsOf(b, uf) == {k \in DOMAIN b : HasPrefix(k, Append(file_prefix(uf[1]), uf[2]))}
Expired(b, uf, cutoff) == StrLess(upload_date_of(MetadataOf(b, uf)), cutoff)
\* a sweep has just run and the store served every call of it
SweptClean == sw.pc = "done" /\ faults = 0

\* C1: one run of cleanup_old_files deletes a file if and only if its
\* upload_date is strictly less than the cutoff, whatever its status; a
\* file at or after the cutoff keeps its payload, metadata and report.
C1_SweepSelection ==
    SweptClean =>
        \A uf \in FilesOf(sw.pre) :
            IF Expired(sw.pre, uf, sw.cutoff)
            THEN ObjectsOf(bucket, uf) = {}
            ELSE /\ ObjectsOf(bucket, uf) = ObjectsOf(sw.pre, uf)
                 /\ \A k \in ObjectsOf(sw.pre, uf) : bucket[k] = sw.pre[k]

\* C2: when deleting one user's expired file throws or fails at the
\* storage layer, the run still visits every user of the index, deletes
\* the other users' expired files and ends with error_count >= 1.
C2_SweepResilience ==
    (sw.pc = "done" /\ sw.failed # {}) =>
        /\ sw.error_count >= 1
        /\ sw.visited = sw.user_ids
        /\ \A uf \in FilesOf(sw.pre) :
              (Expired(sw.pre, uf, sw.cutoff)
                  /\ \A ff \in sw.failed : ff[1] # uf[1])
              => ObjectsOf(bucket, uf) = {}

\* C3: after a sweep, for every file older than the cutoff the load of its
\* metadata key and of its report key return None and its payload key is
\* absent, also for a file that never had a report.
C3_ExpiredGone ==
    SweptClean =>
        \A uf \in FilesOf(sw.pre) :
            Expired(sw.pre, uf, sw.cutoff) =>
                /\ load_json_from_r2(bucket, file_metadata_key(uf[1], uf[2]), "ok").val = None
                /\ load_json_from_r2(bucket, file_report_key(uf[1], uf[2]), "ok").val = None
                /\ MetadataOf(sw.pre, uf)[2]["file_key"][2] \notin DOMAIN bucket

C5_Absent ==
    (resp.op = "load_json" /\ ~resp.existed)
        => (resp.exc = "none" /\ resp.val = None /\ ~resp.changed)

C5_Witness ==
    /\ resp.op = "load_json"
    /\ ~resp.existed
    /\ resp.afterDelete
    /\ resp.val = None

\* C6: delete_file_from_r2 on a key that does not exist returns success, a
\* second such call too, and neither changes the stored keys or contents.
C6_IdempotentDelete ==
    (resp.op = "delete" /\ ~resp.existed /\ resp.fault = "ok")
        => (resp.exc = "none" /\ resp.val = TRUE /\ ~resp.changed)

C6_Witness ==
    /\ resp.op = "delete"
    /\ resp.again
    /\ resp.fault = "ok"
    /\ resp.val = TRUE
    /\ ~resp.changed

\* C7: list_objects_with_prefix(prefix) returns exactly the keys stored
\* under the prefix, also when they are more than one listing response
\* holds.
C7_ListingComplete ==
    (resp.op = "list" /\ resp.fault = "ok")
        => Range(resp.val) = {k \in DOMAIN bucket : HasPrefix(k, resp.prefix)}

\* C8: when the object at the key exists and its content does not parse as
\* JSON, load_json_from_r2 yields an error outcome different from the
\* None it returns for a key that does not exist.
C8_MalformedDistinct ==
    (resp.op = "load_json" /\ resp.fault = "ok" /\ resp.malformed)
        => ~(resp.exc = "none" /\ resp.val = None)

C10_IndexedUsersHaveProfiles ==
    \A e \in DOMAIN IndexUsers(bucket) :
        user_profile_key(IndexUsers(bucket)[e][2]) \in DOMAIN bucket

\* the status in the metadata document of a file
StatusOf(b, uf) == MetadataOf(b, uf)[2]["status"][2]

\* C11: in every reachable state a file has a report document if and only
\* if the status in its metadata is completed.
C11_ReportIffCompleted ==
    \A uf \in FilesOf(bucket) :
        (file_report_key(uf[1], uf[2]) \in DOMAIN bucket)
            <=> (StatusOf(bucket, uf) = "completed")

\* one step seen from the metadata document of one file
LifecycleStep(uf) ==
    LET k == file_metadata_key(uf[1], uf[2])
    IN /\ (k \notin DOMAIN bucket /\ k \in DOMAIN bucket')
            => StatusOf(bucket', uf) = "processing"
       /\ (k \in DOMAIN bucket /\ k \in DOMAIN bucket' /\ bucket'[k] # bucket[k])
            => /\ StatusOf(bucket, uf) = "processing"
               /\ \/ /\ StatusOf(bucket', uf) = "completed"
                     /\ "analysis_date" \in DOMAIN MetadataOf(bucket', uf)[2]
                  \/ /\ StatusOf(bucket', uf) = "failed"
                     /\ "error" \in DOMAIN MetadataOf(bucket', uf)[2]

C13_TransportFailureIsValue ==
    (resp.op \in {"upload", "delete", "download"} /\ resp.fault # "ok")
        => /\ resp.exc = "none"
           /\ resp.val = IF resp.op = "download" THEN None ELSE FALSE
           /\ ~resp.changed

\* C14: when delete_file reports success for a file, its payload, its
\* metadata document and its report document are absent from the store.
C14_DeleteDestroys ==
    [][\A u \in UserIds, f \in FileIds, fv \in FV(4) :
          (DeleteFile(u, f, fv) /\ delete_file(bucket, u, f, fv).exc = "none")
              => ObjectsOf(bucket', <<u, f>>) = {}]_vars

\* C15: once a user's profile document is written, no operation modifies
\* or deletes it: its content is the same in every later state.
C15_ProfileImmutable ==
    [][\A u \in UserIds :
          user_profile_key(u) \in DOMAIN bucket
              => /\ user_profile_key(u) \in DOMAIN bucket'
                 /\ bucket'[user_profile_key(u)] = bucket[user_profile_key(u)]]_vars

C15_Witness ==
    /\ \A u \in UserIds : user_profile_key(u) \in DOMAIN bucket
    /\ sw.pc = "done"
    /\ sw.deleted_count >= 1
    /\ FilesOf(bucket) # {}

\* the files of one user that have a metadata document
FilesOfUser(b, u) == {uf \in FilesOf(b) : uf[1] = u}

\* C16: for every user u the keys under users/{u}/files/ that end in
\* /metadata.json are exactly one key per file of u that has metadata, and
\* list_user_files(u) returns exactly one record per such file.
C16_Namespace ==
    \A u \in UserIds :
        LET keys == list_objects_with_prefix(bucket, file_prefix(u), "ok").val
            metadata_keys == SelectSeq(keys, IsMetadataKey)
            files == list_user_files(bucket, u, Ok(1 + MaxFiles)).val
        IN /\ Len(metadata_keys) = Cardinality(FilesOfUser(bucket, u))
           /\ Range(metadata_keys) =
                 {file_metadata_key(u, uf[2]) : uf \in FilesOfUser(bucket, u)}
           /\ Len(files) = Cardinality(FilesOfUser(bucket, u))
           /\ Range(files) = {MetadataOf(bucket, uf) : uf \in FilesOfUser(bucket, u)}

\* C17: every run of cleanup_old_files ends, whatever store calls fail,
\* without an exception reaching its caller and having attempted every
\* user id it read from the index.
C17_SweepCompletes ==
    /\ [](sw.pc = "done" => (sw.exc = "none" /\ sw.visited = sw.user_ids))
    /\ [](sw.pc = "users" => SweepCanStep)
    /\ (sw.pc = "users") ~> (sw.pc = "done")

C17_Witness ==
    /\ sw.pc = "done"
    /\ Len(sw.user_ids) = MaxUsers
    /\ sw.visited = sw.user_ids
    /\ sw.error_count >= 1
    /\ faults >= 1

\* the user ids whose stored profile document carries the email
ProfilesWith(b, email) ==
    {u \in UserIds :
        LET r == load_json_from_r2(b, user_profile_key(u), "ok")
        IN r.val # None /\ r.val[2]["email"] = Str(email)}

\* the user id the stored index gives the email, if any
IndexedAs(b, email) ==
    LET r == load_json_from_r2(b, users_index_key, "ok")
    IN IF r.val = None \/ email \notin DOMAIN r.val[2]["users"][2] THEN {}
       ELSE {r.val[2]["users"][2][email][2]}

\* C18: in every reachable state no two stored profile documents carry the
\* same email, and every email belongs to at most one user id, the stored
\* profiles and the index taken together.
C18_EmailUnique ==
    \A e \in Emails : Cardinality(ProfilesWith(bucket, e) \cup IndexedAs(bucket, e)) <= 1

\* key.startswith("users/{u}/")
OwnedBy(key, u) == HasPrefix(key, <<"users", u>>)

\* the keys upload_file addresses: payload, metadata document, report
upload_file_keys(user_id, file_id, filename) ==
    {file_payload_key(user_id, file_id, filename),
     file_metadata_key(user_id, file_id), file_report_key(user_id, file_id)}

\* the keys list_files addresses: the metadata documents the listing names
list_files_keys(b, user_id) ==
    Range(SelectSeq(list_objects_with_prefix(b, file_prefix(user_id), "ok").val,
                    IsMetadataKey))

get_file_info_keys(user_id, file_id) == {file_metadata_key(user_id, file_id)}

get_analysis_report_keys(user_id, file_id) == {file_report_key(user_id, file_id)}

\* the keys delete_file addresses: the metadata document and, when it is
\* there, the payload it names and the report
delete_file_keys(b, user_id, file_id) ==
    LET m == load_json_from_r2(b, file_metadata_key(user_id, file_id), "ok")
    IN {file_metadata_key(user_id, file_id)} \cup
       IF Truthy(m.val) /\ "file_key" \in DOMAIN m.val[2]
       THEN {m.val[2]["file_key"][2], file_report_key(user_id, file_id)}
       ELSE {}

\* the keys whose object a step writes, overwrites or deletes
ChangedKeys ==
    {k \in DOMAIN bucket \cup DOMAIN bucket' :
        \/ (k \in DOMAIN bucket) # (k \in DOMAIN bucket')
        \/ bucket[k] # bucket'[k]}

\* a step of a file operation on behalf of user u
FileStepOf(u) ==
    \/ \E n \in Filenames, c \in FileContents, fv \in FV(2) : UploadBegin(u, n, c, fv)
    \/ up.user_id = u /\ \E a \in AnalysisResults, fv \in FV(3) : UploadFinish(a, fv)
    \/ \E f \in FileIds, fv \in FV(4) : DeleteFile(u, f, fv)

\* the keys the file operations address in a state on behalf of user u
FileKeysOf(u) ==
    UNION {upload_file_keys(u, f, n) \cup get_file_info_keys(u, f)
           \cup get_analysis_report_keys(u, f) \cup delete_file_keys(bucket, u, f)
             : f \in FileIds, n \in Filenames}
    \cup list_files_keys(bucket, u)

\* C19: every key a file operation addresses on behalf of user u starts
\* with users/{u}/; the file_key of every metadata document under
\* users/{u}/files/ starts with users/{u}/files/; and a step of upload_file
\* or delete_file on behalf of u changes no object outside users/{u}/.
C19_OwnerIsolation ==
    /\ [](\A u \in UserIds :
            /\ \A k \in FileKeysOf(u) : OwnedBy(k, u)
            /\ \A uf \in FilesOfUser(bucket, u) :
                   "file_key" \in DOMAIN MetadataOf(bucket, uf)[2]
                       => HasPrefix(MetadataOf(bucket, uf)[2]["file_key"][2],
                                    file_prefix(u)))
    /\ [][\A u \in UserIds :
             (\E k \in ChangedKeys : ~OwnedBy(k, u)) => ~FileStepOf(u)]_vars

\* each user has a stored file whose metadata names its payload, so each
\* can ask for the other's file id, and no upload is in progress
C19_Witness ==
    /\ up = NoUpload
    /\ \A u \in UserIds :
          \E uf \in FilesOfUser(bucket, u) :
              /\ "file_key" \in DOMAIN MetadataOf(bucket, uf)[2]
              /\ MetadataOf(bucket, uf)[2]["file_key"][2] \in DOMAIN bucket

\* the fields some variable of the environment or of the env file names,
\* in any spelling
Supplied(environ, env_file) ==
    {f \in SettingsFields :
        \E n \in DOMAIN environ \cup DOMAIN env_file : Lower(n) = f}

\* the text the construction takes for a field: the environment's first
SuppliedText(environ, env_file, f) ==
    IF \E n \in DOMAIN environ : Lower(n) = f
    THEN environ[CHOOSE n \in DOMAIN environ : Lower(n) = f]
    ELSE env_file[CHOOSE n \in DOMAIN env_file : Lower(n) = f]

\* C20 as stated: the construction of Settings succeeds when every required
\* setting is supplied by the environment or by the env file, in any case
\* and whatever other variables are set, and it fails with a ValueError when
\* a required setting is supplied by neither.
C20_SettingsAsStated ==
    resp.op = "Settings"
        => /\ RequiredFields \subseteq Supplied(resp.environ, resp.env_file)
                  => resp.exc = "none"
           /\ ~(RequiredFields \subseteq Supplied(resp.environ, resp.env_file))
                  => IsValueError(resp.exc)

\* C20: the construction of Settings succeeds when every required setting
\* is supplied by the environment or by the env file, in any case and
\* whatever unknown variables are set, and every supplied int setting is the
\* text of an integer; it fails with a ValueError when a required setting is
\* supplied by neither, or a supplied int setting is not an integer.
C20_Settings ==
    resp.op = "Settings"
        => LET supplied == Supplied(resp.environ, resp.env_file)
               valid == \A f \in IntFields \cap supplied :
                           SuppliedText(resp.environ, resp.env_file, f) = "60"
           IN /\ (RequiredFields \subseteq supplied /\ valid)
                     => /\ resp.exc = "none"
                        /\ \A f \in RequiredFields : resp.val[2][f] = Str("x")
              /\ ~(RequiredFields \subseteq supplied /\ valid)
                     => IsValueError(resp.exc)

\* every required setting supplied in upper case, some by the environment
\* and some by the env file, with an unknown variable, and Settings built
C20_Witness ==
    /\ resp.op = "Settings"
    /\ resp.exc = "none"
    /\ "R2_ACCOUNT_ID" \in DOMAIN resp.env_file
    /\ "SECRET_KEY" \in DOMAIN resp.environ
    /\ "CORS_ORIGINS" \in DOMAIN resp.env_file
    /\ RequiredFields \subseteq Supplied(resp.environ, resp.env_file)

\* the profile of user u carries the email and the index does not give the
\* email to u
Lost(b, email, u) == u \in ProfilesWith(b, email) /\ IndexedAs(b, email) # {u}

\* C21: when a create_user call writes the index it read before another
\* call's write, both calls having returned a user id, both profile
\* documents exist but the stored index holds the entries the late writer
\* read and its own email only, so the other call's email is not in it; and
\* a user whose email the index does not give them stays so in every step.
C21_LostUpdate ==
    /\ [](resp.op = "create_user_write"
            => /\ IndexUsers(bucket) = (resp.email :> Str(resp.user_id)) @@ resp.read
               /\ resp.user_id \in ProfilesWith(bucket, resp.email)
               /\ \A e \in (DOMAIN resp.before \ DOMAIN resp.read) \ {resp.email} :
                     /\ e \notin DOMAIN IndexUsers(bucket)
                     /\ ProfilesWith(bucket, e) # {})
    /\ [][\/ bucket' = bucket
          \/ \A e \in Emails, u \in UserIds :
                Lost(bucket, e, u) => Lost(bucket', e, u)]_vars

\* two calls with distinct emails have returned, the first reader having
\* written last: two profiles, one entry in the index
C21_Witness ==
    /\ resp.op = "create_user_write"
    /\ resp.read = EmptyMap
    /\ DOMAIN resp.before = Emails \ {resp.email}
    /\ DOMAIN IndexUsers(bucket) = {resp.email}
    /\ \A e \in Emails : ProfilesWith(bucket, e) # {}
    /\ \E e \in Emails, u \in UserIds : Lost(bucket, e, u)

\* the files this run removed whole: stored before it, no object after it
RemovedByRun == {uf \in FilesOf(sw.pre) : ObjectsOf(bucket, uf) = {}}

\* the expired files of which an object is still stored after the run
ExpiredLeft ==
    {uf \in FilesOf(sw.pre) :
        Expired(sw.pre, uf, sw.cutoff) /\ ObjectsOf(bucket, uf) # {}}

\* the users whose pass raised: an expired file's metadata without file_id
UsersRaised ==
    {u \in Range(sw.user_ids) :
        \E uf \in FilesOfUser(sw.pre, u) :
            /\ Expired(sw.pre, uf, sw.cutoff)
            /\ "file_id" \notin DOMAIN MetadataOf(sw.pre, uf)[2]}

Authentic(b, email, password) ==
    \E u \in IndexedAs(b, email) :
        /\ user_profile_key(u) \in DOMAIN b
        /\ load_json_from_r2(b, user_profile_key(u), "ok").val[2]["hashed_password"]
              = Str(get_password_hash(password))

\* the stored profile of the user the index gives the email, without the
\* password digest
PublicProfile(b, email) ==
    LET u == CHOOSE x \in IndexedAs(b, email) : TRUE
        profile == load_json_from_r2(b, user_profile_key(u), "ok").val[2]
    IN Dict([k \in DOMAIN profile \ {"hashed_password"} |-> profile[k]])

\* C23: authenticate_user never modifies the store; it returns the user's
\* data without the digest only if the email is a key of the index, the
\* profile of the mapped user id exists and the password verifies, and it
\* does so whenever the store serves its reads; in every other case it
\* returns None. After a create_user whose two writes succeeded,
\* authenticate_user with the same email and password returns the new
\* user's data.
C23_Authenticate ==
    /\ [](\A e \in Emails, p \in Passwords, fv \in FaultVectors(2, MaxFaults) :
            LET r == authenticate_user(bucket, e, p, fv)
            IN /\ r.bucket = bucket
               /\ r.exc = "none"
               /\ r.val # None => /\ Authentic(bucket, e, p)
                                  /\ r.val = PublicProfile(bucket, e)
               /\ (Authentic(bucket, e, p) /\ fv = Ok(2)) => r.val # None)
    /\ [][\A e \in Emails, p \in RegPasswords, n \in FullNames, fv \in FV(3) :
             (Register(e, p, n, fv) /\ fv[2] = "ok" /\ fv[3] = "ok"
                 /\ issuedUsers' # issuedUsers)
             => \A u \in issuedUsers' \ issuedUsers :
                   /\ authenticate_user(bucket', e, p, Ok(2)).val # None
                   /\ authenticate_user(bucket', e, p, Ok(2)).val[2]["user_id"]
                         = Str(u)]_vars

\* a login has just succeeded, and the other email does not authenticate
C23_Witness ==
    /\ resp.op = "login"
    /\ resp.ok
    /\ \E e \in Emails : Authentic(bucket, e, "pw1")
    /\ \E e \in Emails : ~Authentic(bucket, e, "pw1")

\* the state of a run's loops over the bucket b, nothing counted yet
FreshAcc(b, cutoff) ==
    [bucket |-> b, deleted_count |-> 0, error_count |-> 0, cutoff |-> cutoff,
     failed |-> {}, visited |-> <<>>, user_ids |-> <<>>, calls |-> {},
     exc |-> "none"]

\* the sweep's loop body on one listed metadata record that is older than
\* the cutoff, over the bucket b
SweepOne(b, u, file_metadata, fv) ==
    cleanup_files(FreshAcc(b, IsoFormat(Epoch + Horizon + 1)), u, <<file_metadata>>,
                  IsoFormat(Epoch + Horizon + 1), fv, 0)

\* C24: delete_user_file(u, f), when the metadata document of f is absent
\* or its read fails, returns False and leaves every stored object in
\* place, a payload or a report of f included; and the sweep, handed the
\* listed record of such a file, counts an error and no deletion.
C24_NoMetadataNoDelete ==
    \A u \in UserIds, f \in FileIds, fv \in FaultVectors(4, MaxFaults) :
        /\ load_json_from_r2(bucket, file_metadata_key(u, f), fv[1]).val = None
              => delete_user_file(bucket, u, f, fv) = Ret(bucket, FALSE)
        /\ <<u, f>> \in FilesOf(bucket)
              => /\ fv[1] # "ok"
                    => LET r == SweepOne(bucket, u, MetadataOf(bucket, <<u, f>>), fv)
                       IN /\ r.bucket = bucket
                          /\ r.error_count = 1
                          /\ r.deleted_count = 0
                 /\ LET gone == Without(bucket, file_metadata_key(u, f))
                        r == SweepOne(gone, u, MetadataOf(bucket, <<u, f>>), fv)
                    IN /\ r.bucket = gone
                       /\ r.error_count = 1
                       /\ r.deleted_count = 0

\* a payload is stored without its metadata document, beside a file that
\* has its metadata, its payload and its report
C24_Witness ==
    /\ up = NoUpload
    /\ \E u \in UserIds, f \in FileIds :
          /\ file_metadata_key(u, f) \notin DOMAIN bucket
          /\ ObjectsOf(bucket, <<u, f>>) # {}
    /\ \E uf \in FilesOf(bucket) :
          file_report_key(uf[1], uf[2]) \in DOMAIN bucket

\* the payload objects of a file: its objects other than the two documents
PayloadsOf(b, uf) ==
    ObjectsOf(b, uf) \ {file_metadata_key(uf[1], uf[2]), file_report_key(uf[1], uf[2])}

\* C25: whenever no operation is in flight, for every file id its metadata
\* document and its payload both exist or neither does, and no report
\* exists without metadata, also after an upload_file that a delete_file of
\* the same file ran beside.
C25_TripleConsistent ==
    (up = NoUpload /\ reg = NoReg)
        => \A u \in UserIds, f \in FileIds :
              /\ (file_metadata_key(u, f) \in DOMAIN bucket)
                    <=> (PayloadsOf(bucket, <<u, f>>) # {})
              /\ file_report_key(u, f) \in DOMAIN bucket
                    => file_metadata_key(u, f) \in DOMAIN bucket

\* the keys of the files whose metadata key the listing of a user of the
\* index held when the run started: metadata, report, and the payload the
\* metadata names
SweepableKeys ==
    UNION {{file_metadata_key(uf[1], uf[2]), file_report_key(uf[1], uf[2]),
            MetadataOf(sw.pre, uf)[2]["file_key"][2]} :
           uf \in {x \in FilesOf(sw.pre) :
                      /\ x[1] \in Range(sw.user_ids)
                      /\ file_metadata_key(x[1], x[2]) \in
                            Range(list_objects_with_prefix(sw.pre, file_prefix(x[1]),
                                                           "ok").val)}}

\* C26: a run of cleanup_old_files writes and creates no object: the keys
\* after it are keys before it, with the same content; it removes neither
\* the index nor a profile document; and every key it removes is the
\* payload, metadata or report key of a file whose metadata was listed for
\* a user of the index.
C26_SweepFrame ==
    (sw.pc = "done" /\ sw.pre # EmptyMap)
        => /\ DOMAIN bucket \subseteq DOMAIN sw.pre
           /\ \A k \in DOMAIN bucket : bucket[k] = sw.pre[k]
           /\ users_index_key \in DOMAIN sw.pre => users_index_key \in DOMAIN bucket
           /\ \A u \in UserIds :
                 user_profile_key(u) \in DOMAIN sw.pre
                     => user_profile_key(u) \in DOMAIN bucket
           /\ DOMAIN sw.pre \ DOMAIN bucket \subseteq SweepableKeys

\* a run has removed an expired file and kept a later one, with a store
\* call failing on the way
C26_Witness ==
    /\ sw.pc = "done"
    /\ faults >= 1
    /\ DOMAIN sw.pre \ DOMAIN bucket # {}
    /\ FilesOf(bucket) # {}
    /\ users_index_key \in DOMAIN bucket

\* the files of a store whose metadata has no upload_date but names the
\* file and its payload
Undated(b) ==
    {uf \in FilesOf(b) :
        /\ "upload_date" \notin DOMAIN MetadataOf(b, uf)[2]
        /\ {"file_id", "file_key"} \subseteq DOMAIN MetadataOf(b, uf)[2]}

\* the metadata key of the file was in the listing of a user of the index
\* when the run started
ListedForRun(uf) ==
    /\ uf[1] \in Range(sw.user_ids)
    /\ file_metadata_key(uf[1], uf[2]) \in
          Range(list_objects_with_prefix(sw.pre, file_prefix(uf[1]), "ok").val)

====
